---- MODULE Spec2Model ----
(***************************************************************************)
(* A model of ExpenseTracker (src/exam folder/examcode.py): the record     *)
(* store (__init__, _clean_data, add_expense) and the query operations     *)
(* (get_summary, filter_expenses) over the in-memory DataFrame self.data   *)
(* and the CSV file self.filename.                                         *)
(*                                                                         *)
(* Text is a sequence of one-character strings, so that strip(), lower(), *)
(* strptime(), float() and the CSV round trip are computed, not assumed.   *)
(* An amount is a float that is a whole number or NaN (float("nan"));      *)
(* "inf" and fractional amounts are outside the modelled inputs.           *)
(***************************************************************************)
EXTENDS Integers, Sequences, FiniteSets, TLC

VARIABLES
    file,      \* the CSV at self.filename: [exists, rows], rows of text cells
    data,      \* self.data: the sequence of records of the DataFrame
    call,      \* the last call: its operation (op) and its arguments
    pre,       \* [data, file] as they were when the last call began
    outcome    \* what the last call gave: the value returned, the line
               \* printed, the exception that left the call

vars == <<file, data, call, pre, outcome>>

\* ------------------------------------------------------------------ bounds

\* add_expense is not called once the collection holds MaxRecords records.
MaxRecords == 2

\* ------------------------------------------------------------------ text

Digits == {"0", "1", "2", "3", "4", "5", "6", "7", "8", "9"}

DigitVal(c) ==
    CASE c = "0" -> 0 [] c = "1" -> 1 [] c = "2" -> 2 [] c = "3" -> 3
      [] c = "4" -> 4 [] c = "5" -> 5 [] c = "6" -> 6 [] c = "7" -> 7
      [] c = "8" -> 8 [] c = "9" -> 9

DigitChar(n) ==
    CASE n = 0 -> "0" [] n = 1 -> "1" [] n = 2 -> "2" [] n = 3 -> "3"
      [] n = 4 -> "4" [] n = 5 -> "5" [] n = 6 -> "6" [] n = 7 -> "7"
      [] n = 8 -> "8" [] n = 9 -> "9"

UpperChars == <<"A", "B", "C", "D", "E", "F", "G", "H", "I", "J", "K", "L", "M",
                "N", "O", "P", "Q", "R", "S", "T", "U", "V", "W", "X", "Y", "Z">>
LowerChars == <<"a", "b", "c", "d", "e", "f", "g", "h", "i", "j", "k", "l", "m",
                "n", "o", "p", "q", "r", "s", "t", "u", "v", "w", "x", "y", "z">>

IsSpace(c) == c = " "

AllDigits(s) == Len(s) > 0 /\ \A i \in 1..Len(s) : s[i] \in Digits

\* The value of a run of decimal digits.
RECURSIVE DigitsValue(_)
DigitsValue(s) ==
    IF s = <<>> THEN 0
    ELSE 10 * DigitsValue(SubSeq(s, 1, Len(s) - 1)) + DigitVal(s[Len(s)])

\* The decimal digits of a natural number.
RECURSIVE NatText(_)
NatText(n) ==
    IF n < 10 THEN <<DigitChar(n)>>
    ELSE Append(NatText(n \div 10), DigitChar(n % 10))

\* str.strip(): surrounding whitespace removed.
RECURSIVE lstrip(_)
lstrip(s) == IF s # <<>> /\ IsSpace(s[1]) THEN lstrip(Tail(s)) ELSE s

RECURSIVE rstrip(_)
rstrip(s) ==
    IF s # <<>> /\ IsSpace(s[Len(s)]) THEN rstrip(SubSeq(s, 1, Len(s) - 1)) ELSE s

strip(s) == rstrip(lstrip(s))

\* str.lower(), character by character.
LowerChar(c) ==
    IF \E i \in 1..Len(UpperChars) : UpperChars[i] = c
    THEN LowerChars[CHOOSE i \in 1..Len(UpperChars) : UpperChars[i] = c]
    ELSE c

lower(s) == [i \in 1..Len(s) |-> LowerChar(s[i])]

\* str.split(sep): the fields between the separators.
RECURSIVE Split(_, _)
Split(s, sep) ==
    IF \A i \in 1..Len(s) : s[i] # sep THEN <<s>>
    ELSE LET k == CHOOSE i \in 1..Len(s) :
                      s[i] = sep /\ \A j \in 1..(i - 1) : s[j] # sep
         IN  <<SubSeq(s, 1, k - 1)>> \o Split(SubSeq(s, k + 1, Len(s)), sep)

\* ------------------------------------------------------------------ dates

\* pd.NaT, the date no text parsed to.
NaT == [y |-> 0, m |-> 0, d |-> 0]

IsLeap(y) == (y % 4 = 0 /\ y % 100 # 0) \/ y % 400 = 0

DaysInMonth(y, m) ==
    IF m = 2 THEN (IF IsLeap(y) THEN 29 ELSE 28)
    ELSE IF m \in {4, 6, 9, 11} THEN 30 ELSE 31

\* The fields of a text of the shape %Y-%m-%d, or NaT: four digits of year,
\* one or two of month and of day, and a day the calendar has.
ParseYmd(text) ==
    LET f == Split(text, "-") IN
    IF /\ Len(f) = 3
       /\ AllDigits(f[1]) /\ Len(f[1]) = 4
       /\ AllDigits(f[2]) /\ Len(f[2]) \in {1, 2}
       /\ AllDigits(f[3]) /\ Len(f[3]) \in {1, 2}
    THEN LET y == DigitsValue(f[1])
             m == DigitsValue(f[2])
             d == DigitsValue(f[3])
         IN  IF y >= 1 /\ m \in 1..12 /\ d >= 1 /\ d <= DaysInMonth(y, m)
             THEN [y |-> y, m |-> m, d |-> d]
             ELSE NaT
    ELSE NaT

\* A check of the shape alone, which takes any three fields.
strptime_shape_only(text) == Len(Split(text, "-")) # 3

\* datetime.strptime(date, "%Y-%m-%d") raises ValueError.
strptime_raises(text) == ParseYmd(text) = NaT

\* pd.to_datetime(text) / pd.to_datetime(text, errors="coerce"): NaT for a
\* text it cannot parse. On the texts of the model (dates written
\* YYYY-MM-DD, and texts that name no date) it parses what strptime parses.
to_datetime(text) == ParseYmd(text)

Pad2(n) == IF n < 10 THEN <<"0", DigitChar(n)>> ELSE NatText(n)

Pad4(n) ==
    IF n < 10 THEN <<"0", "0", "0">> \o NatText(n)
    ELSE IF n < 100 THEN <<"0", "0">> \o NatText(n)
    ELSE IF n < 1000 THEN <<"0">> \o NatText(n)
    ELSE NatText(n)

\* A Timestamp as to_csv writes it.
DateText(t) == Pad4(t.y) \o <<"-">> \o Pad2(t.m) \o <<"-">> \o Pad2(t.d)

DateKey(t) == t.y * 10000 + t.m * 100 + t.d

\* A comparison that lets every date pass a bound that is NaT.
DateGe_unbounded(a, b) == b = NaT \/ (a # NaT /\ DateKey(a) >= DateKey(b))

\* Series >= Timestamp and Series <= Timestamp: False against NaT.
DateGe(a, b) == a # NaT /\ b # NaT /\ DateKey(a) >= DateKey(b)
DateLe(a, b) == a # NaT /\ b # NaT /\ DateKey(a) <= DateKey(b)

\* ------------------------------------------------------------------ numbers

\* A float: a whole number, or NaN.
Num(n) == [nan |-> FALSE, v |-> n]
NaN    == [nan |-> TRUE, v |-> 0]

\* Comparisons of floats: False whenever NaN is compared.
FloatLe(a, b) == ~a.nan /\ ~b.nan /\ a.v <= b.v
FloatGe(a, b) == ~a.nan /\ ~b.nan /\ a.v >= b.v

\* float(text): [ok, f]; ok is FALSE where float() raises ValueError (and
\* where pd.to_numeric(errors="coerce") gives NaN). float("nan") is NaN.
ParseFloat(text) ==
    LET t    == strip(text)
        neg  == t # <<>> /\ t[1] = "-"
        body == IF t # <<>> /\ t[1] \in {"-", "+"} THEN Tail(t) ELSE t
        f    == Split(body, ".")
    IN  IF lower(body) = <<"n", "a", "n">>
        THEN [ok |-> TRUE, f |-> NaN]
        ELSE IF /\ Len(f) \in {1, 2}
                /\ AllDigits(f[1])
                /\ Len(f) = 2 =>
                       (f[2] = <<>> \/ (AllDigits(f[2]) /\ DigitsValue(f[2]) = 0))
        THEN [ok |-> TRUE,
              f  |-> Num(IF neg THEN 0 - DigitsValue(f[1]) ELSE DigitsValue(f[1]))]
        ELSE [ok |-> FALSE, f |-> NaN]

\* A float64 Amount as to_csv writes it: repr(100.0) is "100.0", and NaN is
\* the empty cell.
FloatText(x) ==
    IF x.nan THEN <<>>
    ELSE (IF x.v < 0 THEN <<"-">> \o NatText(0 - x.v) ELSE NatText(x.v)) \o <<".", "0">>

\* ------------------------------------------------------------------ the CSV file

\* The cells pd.read_csv reads as missing (NaN): the empty cell and the
\* default NA tokens (those the model's files can hold).
NaTokens == {<<"N", "A">>, <<"n", "a", "n">>, <<"N", "a", "N">>, <<"n", "u", "l", "l">>}

IsNA(cell) == cell = <<>> \/ cell \in NaTokens

\* The str() of a missing value, which astype(str) puts in its place.
NanText == <<"n", "a", "n">>

\* DataFrame.to_csv(self.filename, index=False): one row of text per record.
to_csv(df) ==
    [i \in 1..Len(df) |->
        [Date        |-> DateText(df[i].Date),
         Amount      |-> FloatText(df[i].Amount),
         Category    |-> df[i].Category,
         Description |-> df[i].Description]]

\* One row of pd.read_csv after the three conversions of _clean_data; isna is
\* what dropna() looks at.
CleanRow(row) ==
    LET date   == IF IsNA(row.Date) THEN NaT ELSE to_datetime(row.Date)
        amount == IF IsNA(row.Amount) THEN [ok |-> FALSE, f |-> NaN]
                  ELSE ParseFloat(row.Amount)
    IN  [rec  |-> [Date        |-> date,
                   Amount      |-> amount.f,
                   Category    |-> IF IsNA(row.Category) THEN NanText
                                   ELSE strip(row.Category),
                   Description |-> row.Description],
         isna |-> date = NaT \/ ~amount.ok \/ amount.f.nan \/ IsNA(row.Description)]

RECURSIVE DropNa(_)
DropNa(rows) ==
    IF rows = <<>> THEN <<>>
    ELSE (IF rows[1].isna THEN <<>> ELSE <<rows[1].rec>>) \o DropNa(Tail(rows))

\* _clean_data on the frame read from the file.
_clean_data(rows) == DropNa([i \in 1..Len(rows) |-> CleanRow(rows[i])])

\* ExpenseTracker(filename): [data, file] after construction on the file f.
__init__(f) ==
    IF f.exists
    THEN [data |-> _clean_data(f.rows), file |-> f]
    ELSE [data |-> <<>>, file |-> [exists |-> TRUE, rows |-> <<>>]]

\* ------------------------------------------------------------------ add_expense

MsgAdded    == " Expense added successfully"
MsgPositive == "Amount must be positive."
MsgDate     == "Invalid date format! Use YYYY-MM-DD"
MsgNone     == ""

\* The ways DataFrame.to_csv may end on n rows: written in full, or OSError
\* raised with the old file left as it was (written = -1, the open failed)
\* or with only the first `written` rows on disk.
WriteOutcomes(n) ==
    {[ok |-> TRUE, written |-> n]} \cup {[ok |-> FALSE, written |-> k] : k \in (-1)..(n - 1)}

\* The file after to_csv(df) ended as io says.
Written(f, df, io) ==
    IF io.written < 0 THEN f
    ELSE [exists |-> TRUE, rows |-> SubSeq(to_csv(df), 1, io.written)]

\* A record that keeps the category as typed.
new_row_unstripped(date, value, category, description) ==
    [Date |-> to_datetime(date), Amount |-> value,
     Category |-> category, Description |-> description]

\* The record add_expense builds from its validated arguments.
new_row(date, value, category, description) ==
    [Date        |-> to_datetime(date),
     Amount      |-> value,
     Category    |-> strip(category),
     Description |-> description]

\* add_expense(date, amount, category, description) on (df, f), the write of
\* the file ending as io says.
add_expense(df, f, date, amount, category, description, io) ==
    LET unchanged(msg) ==
            [data |-> df, file |-> f, ret |-> "False", msg |-> msg, raised |-> "none"]
        value == ParseFloat(amount)
    IN  IF strptime_raises(date) THEN unchanged(MsgDate)
        ELSE IF ~value.ok THEN unchanged(MsgDate)
        ELSE IF FloatLe(value.f, Num(0)) THEN unchanged(MsgPositive)
        ELSE LET df2 == Append(df, new_row(date, value.f, category, description))
             IN  IF io.ok
                 THEN [data |-> df2, file |-> Written(f, df2, io),
                       ret |-> "True", msg |-> MsgAdded, raised |-> "none"]
                 ELSE [data |-> df2, file |-> Written(f, df2, io),
                       ret |-> "none", msg |-> MsgNone, raised |-> "OSError"]

\* ------------------------------------------------------------------ inputs

D1      == <<"2", "0", "2", "4", "-", "0", "1", "-", "0", "5">>
D2      == <<"2", "0", "2", "4", "-", "0", "1", "-", "0", "6">>
DBad    == <<"2", "0", "2", "4", "-", "1", "3", "-", "4", "0">>
DJunk   == <<"x">>

A100    == <<"1", "0", "0">>
A50     == <<"5", "0">>
A0      == <<"0">>
AMinus5 == <<"-", "5">>
AJunk   == <<"a", "b", "c">>
ANan    == <<"n", "a", "n">>

Food      == <<"F", "o", "o", "d">>
FoodSp    == <<" ", "F", "o", "o", "d", " ">>
food      == <<"f", "o", "o", "d">>
Transport == <<"T", "r", "a", "n", "s", "p", "o", "r", "t">>
Blank     == <<" ", " ">>

lunch   == <<"l", "u", "n", "c", "h">>
bus     == <<"b", "u", "s">>
NoText  == <<>>

Row(d, a, c, x) == [Date |-> d, Amount |-> a, Category |-> c, Description |-> x]

NoFile == [exists |-> FALSE, rows |-> <<>>]
FileOf(rows) == [exists |-> TRUE, rows |-> rows]

\* The files a tracker may be constructed on: none, the header alone, a file
\* an earlier run wrote, and files with rows that _clean_data drops.
StoreFiles ==
    { NoFile,
      FileOf(<<>>),
      FileOf(<<Row(D1, FloatText(Num(50)), Food, lunch)>>),
      FileOf(<<Row(DBad, A100, Food, lunch), Row(D1, A50, FoodSp, bus)>>),
      FileOf(<<Row(D1, AJunk, Food, lunch)>>) }

StoreDates        == {D1, DBad}
StoreAmounts      == {A100, A0, AMinus5, AJunk}
StoreCategories   == {FoodSp, Blank}
StoreDescriptions == {lunch, NoText}

\* ------------------------------------------------------------------ the store

NoCall    == [op |-> "init"]
NoOutcome == [ret |-> "none", msg |-> MsgNone, raised |-> "none"]

\* A tracker is constructed on one of the files.
InitOn(files) ==
    \E f \in files :
        /\ file = __init__(f).file
        /\ data = __init__(f).data
        /\ call = NoCall
        /\ pre = [data |-> <<>>, file |-> f]
        /\ outcome = NoOutcome

\* An exception add_expense does not catch leaves main() (lines 162-179 have
\* no handler): the process is over, and only a new start follows.
Crashed == call.op = "add" /\ outcome.raised # "none"

\* The program is started again: a new tracker is constructed on the file.
Restart ==
    /\ file' = __init__(file).file
    /\ data' = __init__(file).data
    /\ call' = NoCall
    /\ pre' = [data |-> data, file |-> file]
    /\ outcome' = NoOutcome

\* The calls of add_expense that get as far as to_csv (line 44); the others
\* return before it, so how a write would end is not part of the call.
ReachesWrite(date, amount) ==
    /\ ~strptime_raises(date)
    /\ ParseFloat(amount).ok
    /\ ~FloatLe(ParseFloat(amount).f, Num(0))

\* One call of add_expense, with its arguments from the given sets.
AddFrom(dates, amounts, categories, descriptions) ==
    /\ ~Crashed
    /\ Len(data) < MaxRecords
    /\ \E date \in dates, amount \in amounts, category \in categories,
          description \in descriptions :
        \E io \in (IF ReachesWrite(date, amount) THEN WriteOutcomes(Len(data) + 1)
                   ELSE {[ok |-> TRUE, written |-> 0]}) :
          LET r == add_expense(data, file, date, amount, category, description, io)
          IN  /\ data' = r.data
              /\ file' = r.file
              /\ call' = [op |-> "add", date |-> date, amount |-> amount,
                          category |-> category, description |-> description,
                          io |-> io]
              /\ pre' = [data |-> data, file |-> file]
              /\ outcome' = [ret |-> r.ret, msg |-> r.msg, raised |-> r.raised]

Init == InitOn(StoreFiles)

AddExpense == AddFrom(StoreDates, StoreAmounts, StoreCategories, StoreDescriptions)

Next == AddExpense \/ Restart

Spec == Init /\ [][Next]_vars

\* ------------------------------------------------------------------ get_summary

\* np.sum(self.data["Amount"]): numpy hands a Series to Series.sum(), which
\* skips NaN.
RECURSIVE np_sum(_)
np_sum(amounts) ==
    IF amounts = <<>> THEN 0
    ELSE (IF amounts[1].nan THEN 0 ELSE amounts[1].v) + np_sum(Tail(amounts))

RECURSIVE Gcd(_, _)
Gcd(a, b) == IF b = 0 THEN a ELSE Gcd(b, a % b)

Abs(n) == IF n < 0 THEN 0 - n ELSE n

\* The quotient num / den as a fraction in lowest terms; 0/0, which is NaN,
\* is the fraction with den = 0.
Quotient(num, den) ==
    IF den = 0 THEN [num |-> 0, den |-> 0]
    ELSE LET g == Gcd(Abs(num), den)
         IN  [num |-> num \div g, den |-> den \div g]

Column(df, name) == [i \in 1..Len(df) |-> df[i][name]]

\* np.mean(self.data["Amount"]): Series.mean(), the sum over the number of
\* the values that are not NaN.
np_mean(amounts) ==
    Quotient(np_sum(amounts), Len(SelectSeq(amounts, LAMBDA x : ~x.nan)))

OfCategory(df, c) == SelectSeq(df, LAMBDA r : r.Category = c)

\* self.data.groupby("Category")["Amount"].sum(): one entry per category.
groupby_sum(df) ==
    [c \in {df[i].Category : i \in 1..Len(df)} |->
        np_sum(Column(OfCategory(df, c), "Amount"))]

MsgNoData == "No data available."

\* get_summary() on df.
get_summary(df) ==
    IF df = <<>>
    THEN [nodata |-> TRUE, text |-> MsgNoData]
    ELSE [nodata      |-> FALSE,
          total       |-> np_sum(Column(df, "Amount")),
          average     |-> np_mean(Column(df, "Amount")),
          by_category |-> groupby_sum(df)]

\* ------------------------------------------------------------------ filter_expenses

\* An optional argument: None, or a value.
None == [some |-> FALSE]
Some(x) == [some |-> TRUE, v |-> x]

\* A test that takes a supplied zero for a bound.
Supplied(x) == x.some

\* `if min_amount:` - None and zero are both false.
Truthy(x) == x.some /\ x.v # 0

\* The working copy with Category stripped and lower-cased (line 70).
LowerCategories(df) ==
    [i \in 1..Len(df) |->
        [df[i] EXCEPT !.Category = lower(strip(df[i].Category))]]

\* A filter that tests the categories as stored against the names as
\* supplied, and lower-cases the copy afterwards.
filter_expenses_case_sensitive(df, start_date, end_date, categories, min_amount, max_amount) ==
    LET s1 == IF start_date.some
              THEN SelectSeq(df, LAMBDA r : DateGe(r.Date, to_datetime(start_date.v)))
              ELSE df
        s2 == IF end_date.some
              THEN SelectSeq(s1, LAMBDA r : DateLe(r.Date, to_datetime(end_date.v)))
              ELSE s1
        s3 == IF categories.some
              THEN SelectSeq(s2, LAMBDA r :
                       r.Category \in {strip(c) : c \in categories.v})
              ELSE s2
        s4 == IF Truthy(min_amount)
              THEN SelectSeq(s3, LAMBDA r : FloatGe(r.Amount, Num(min_amount.v)))
              ELSE s3
        s5 == IF Truthy(max_amount)
              THEN SelectSeq(s4, LAMBDA r : FloatLe(r.Amount, Num(max_amount.v)))
              ELSE s4
    IN  LowerCategories(s5)

\* filter_expenses(start_date, end_date, categories, min_amount, max_amount)
\* on df: the rows of the frame it returns.
filter_expenses(df, start_date, end_date, categories, min_amount, max_amount) ==
    LET s0 == LowerCategories(df)
        s1 == IF start_date.some
              THEN SelectSeq(s0, LAMBDA r : DateGe(r.Date, to_datetime(start_date.v)))
              ELSE s0
        s2 == IF end_date.some
              THEN SelectSeq(s1, LAMBDA r : DateLe(r.Date, to_datetime(end_date.v)))
              ELSE s1
        s3 == IF categories.some
              THEN SelectSeq(s2, LAMBDA r :
                       r.Category \in {lower(strip(c)) : c \in categories.v})
              ELSE s2
        s4 == IF Truthy(min_amount)
              THEN SelectSeq(s3, LAMBDA r : FloatGe(r.Amount, Num(min_amount.v)))
              ELSE s3
        s5 == IF Truthy(max_amount)
              THEN SelectSeq(s4, LAMBDA r : FloatLe(r.Amount, Num(max_amount.v)))
              ELSE s4
    IN  s5

\* ------------------------------------------------------------------ the queries

FOODsp      == <<" ", "F", "O", "O", "D">>
TRANSPORTsp == <<" ", "T", "R", "A", "N", "S", "P", "O", "R", "T", " ">>

\* The files of the query runs: none, and one whose rows include a negative
\* amount and a lower-case category (loading checks neither).
QueryFiles ==
    { NoFile,
      FileOf(<<Row(D1, FloatText(Num(0 - 5)), food, bus)>>) }

\* The calls of add_expense of the query runs.
QueryCalls ==
    { [date |-> D1, amount |-> A100, category |-> Food, description |-> lunch],
      [date |-> D2, amount |-> A50, category |-> Transport, description |-> bus],
      [date |-> D2, amount |-> ANan, category |-> Food, description |-> bus] }

DateRanges ==
    { <<None, None>>, <<Some(D2), None>>, <<None, Some(D1)>>, <<Some(D1), Some(D2)>>,
      <<Some(DJunk), None>>, <<None, Some(DBad)>> }

CategorySets == { None, Some({Food}), Some({FOODsp, TRANSPORTsp}) }

AmountRanges ==
    { <<None, None>>, <<Some(0), None>>, <<None, Some(0)>>, <<Some(100), None>>,
      <<None, Some(50)>>, <<Some(50), Some(100)>> }

AddQuery ==
    \E c \in QueryCalls :
        AddFrom({c.date}, {c.amount}, {c.category}, {c.description})

\* One call of get_summary.
GetSummary ==
    /\ ~Crashed
    /\ call' = [op |-> "summary"]
    /\ outcome' = get_summary(data)
    /\ pre' = [data |-> data, file |-> file]
    /\ UNCHANGED <<data, file>>

\* One call of filter_expenses.
FilterExpenses ==
    /\ ~Crashed
    /\ \E dr \in DateRanges, cs \in CategorySets, ar \in AmountRanges :
        /\ call' = [op |-> "filter", start_date |-> dr[1], end_date |-> dr[2],
                    categories |-> cs, min_amount |-> ar[1], max_amount |-> ar[2]]
        /\ outcome' = [rows |-> filter_expenses(data, dr[1], dr[2], cs, ar[1], ar[2])]
    /\ pre' = [data |-> data, file |-> file]
    /\ UNCHANGED <<data, file>>

\* filter_expenses called again, with the same arguments, on a tracker whose
\* collection is the frame the last call returned.
FilterAgain ==
    /\ call.op = "filter"
    /\ call' = [call EXCEPT !.op = "refilter"]
    /\ outcome' = [rows  |-> filter_expenses(outcome.rows, call.start_date,
                                 call.end_date, call.categories,
                                 call.min_amount, call.max_amount),
                   first |-> outcome.rows]
    /\ UNCHANGED <<data, file, pre>>

InitQuery == InitOn(QueryFiles)

NextQuery == AddQuery \/ GetSummary \/ FilterExpenses \/ FilterAgain

SpecQuery == InitQuery /\ [][NextQuery]_vars

\* ------------------------------------------------------------------ claims on the store

\* The error kind a caller can tell from what add_expense reports: its
\* return value and the line it prints.
ErrorKind ==
    IF outcome.raised # "none" THEN "Unreported"
    ELSE IF outcome.ret = "True" THEN "None"
    ELSE IF outcome.msg = MsgDate THEN "InvalidDateFormat"
    ELSE IF outcome.msg = MsgPositive THEN "InvalidAmount"
    ELSE "Unknown"

IsAdd == call.op = "add"

\* The date text names a calendar day in the form YYYY-MM-DD.
DateParses   == ParseYmd(call.date) # NaT
AmountValue  == ParseFloat(call.amount)
IsNumber     == AmountValue.ok /\ ~AmountValue.f.nan
ValidArgs    == DateParses /\ IsNumber /\ AmountValue.f.v > 0

\* The record the claims expect a successful call to append.
Expected ==
    [Date |-> ParseYmd(call.date), Amount |-> AmountValue.f,
     Category |-> strip(call.category), Description |-> call.description]

Appended == data = Append(pre.data, Expected)

Untouched == data = pre.data /\ file = pre.file

C2_AsClaimed ==
    (IsAdd /\ DateParses /\ (~IsNumber \/ AmountValue.f.v <= 0)) =>
        /\ outcome.ret = "False"
        /\ ErrorKind = "InvalidAmount"
        /\ Untouched

\* C3: a date text that does not parse as YYYY-MM-DD makes add fail with
\* kind InvalidDateFormat, whatever the other arguments, and nothing is
\* changed in memory or on disk.
C3_BadDate ==
    (IsAdd /\ ~DateParses) =>
        /\ outcome.ret = "False"
        /\ ErrorKind = "InvalidDateFormat"
        /\ Untouched

C3_Witness ==
    /\ IsAdd /\ call.date = DBad
    /\ IsNumber /\ AmountValue.f.v > 0
    /\ pre.data # <<>>
    /\ outcome.ret = "False"

ValidRecord(r) ==
    /\ r.Date # NaT
    /\ ~r.Amount.nan
    /\ r.Category # <<>>
    /\ strip(r.Category) = r.Category

ValidStoredRow(row) ==
    /\ ParseYmd(row.Date) # NaT
    /\ ParseFloat(row.Amount).ok /\ ~ParseFloat(row.Amount).f.nan
    /\ strip(row.Category) # <<>>

\* C4 as claimed: in every reachable state every record of the in-memory
\* collection has a valid date, a numeric amount and a non-empty trimmed
\* category, and so has every row of the persisted store (read here for the
\* store as the program itself wrote it, after a successful add).
C4_AsClaimed ==
    /\ \A i \in 1..Len(data) : ValidRecord(data[i])
    /\ (IsAdd /\ outcome.ret = "True") =>
           \A i \in 1..Len(file.rows) : ValidStoredRow(file.rows[i])

\* C5 as claimed: a collection that was persisted and is loaded again by a
\* new tracker on the same path comes back with the same records in the
\* same order.
C5_AsClaimed ==
    (call.op = "init" /\ pre.file.exists /\ pre.file.rows = to_csv(pre.data)) =>
        data = pre.data

\* C10 as claimed: when the arguments are valid and the write of the file
\* fails, the record is still appended in memory and the call returns a
\* failure result of the distinct kind PersistenceFailed.
C10_AsClaimed ==
    (IsAdd /\ ValidArgs /\ ~call.io.ok) =>
        /\ Appended
        /\ outcome.raised = "none"
        /\ outcome.ret = "False"
        /\ ErrorKind \notin {"None", "InvalidDateFormat", "InvalidAmount", "Unreported"}

\* ------------------------------------------------------------------ claims on the queries

IsFilter == call.op = "filter"

BoundParses(b) == b.some => ParseYmd(b.v) # NaT
BoundFails(b)  == b.some /\ ParseYmd(b.v) = NaT

\* The constraints of the last filter call, as the claims read them.
Matches(r) ==
    /\ call.start_date.some => DateKey(r.Date) >= DateKey(ParseYmd(call.start_date.v))
    /\ call.end_date.some => DateKey(r.Date) <= DateKey(ParseYmd(call.end_date.v))
    /\ call.categories.some =>
           \E c \in call.categories.v : lower(strip(c)) = lower(strip(r.Category))
    /\ (call.min_amount.some /\ call.min_amount.v # 0) =>
           (~r.Amount.nan /\ r.Amount.v >= call.min_amount.v)
    /\ (call.max_amount.some /\ call.max_amount.v # 0) =>
           (~r.Amount.nan /\ r.Amount.v <= call.max_amount.v)

Selected == SelectSeq(data, Matches)

AllSupplied ==
    /\ call.start_date.some /\ call.end_date.some /\ call.categories.some
    /\ call.min_amount.some /\ call.max_amount.some

\* C6 as claimed: with bounds that parse, filter_expenses returns exactly
\* the subsequence of the collection, in order, of the records that meet all
\* supplied constraints (a zero or omitted amount bound restricting nothing).
C6_AsClaimed ==
    (IsFilter /\ BoundParses(call.start_date) /\ BoundParses(call.end_date)) =>
        outcome.rows = Selected

\* C6 as amended: the rows returned are those records, in order, each with
\* its category trimmed and lower-cased (the collection itself is unchanged).
C6_Filter ==
    (IsFilter /\ BoundParses(call.start_date) /\ BoundParses(call.end_date)) =>
        /\ outcome.rows =
               [i \in 1..Len(Selected) |->
                   [Selected[i] EXCEPT !.Category = lower(strip(Selected[i].Category))]]
        /\ data = pre.data

C6_Witness ==
    /\ IsFilter /\ AllSupplied
    /\ BoundParses(call.start_date) /\ BoundParses(call.end_date)
    /\ outcome.rows # <<>>
    /\ Len(outcome.rows) < Len(data)
    /\ outcome.rows # Selected

\* C7 as claimed: a supplied start_date or end_date that does not parse is
\* no bound on that side: the result is that of the same call without it.
C7_AsClaimed ==
    /\ (IsFilter /\ BoundFails(call.start_date)) =>
           outcome.rows = filter_expenses(data, None, call.end_date, call.categories,
                                          call.min_amount, call.max_amount)
    /\ (IsFilter /\ BoundFails(call.end_date)) =>
           outcome.rows = filter_expenses(data, call.start_date, None, call.categories,
                                          call.min_amount, call.max_amount)

\* C7 as amended: a supplied start_date or end_date that does not parse is
\* met by no record: the result is empty, whatever else is supplied.
C7_Empty ==
    (IsFilter /\ (BoundFails(call.start_date) \/ BoundFails(call.end_date))) =>
        outcome.rows = <<>>

C7_Witness ==
    /\ IsFilter /\ BoundFails(call.start_date)
    /\ ~call.end_date.some /\ ~call.categories.some
    /\ ~call.min_amount.some /\ ~call.max_amount.some
    /\ data # <<>>

Positions == 1..Len(data)

StoredCategories == {data[i].Category : i \in Positions}

\* The sum of the amounts of the records at the positions S: a number, or
\* NaN when one of the amounts is NaN.
RECURSIVE SumAt(_)
SumAt(S) ==
    IF S = {} THEN Num(0)
    ELSE LET i    == CHOOSE j \in S : TRUE
             rest == SumAt(S \ {i})
         IN  IF data[i].Amount.nan \/ rest.nan THEN NaN
             ELSE Num(data[i].Amount.v + rest.v)

RECURSIVE SumOfValues(_, _)
SumOfValues(f, S) ==
    IF S = {} THEN 0
    ELSE LET c == CHOOSE x \in S : TRUE IN f[c] + SumOfValues(f, S \ {c})

\* The two adds of the scenario, made on an empty store.
ScenarioData ==
    << [Date |-> [y |-> 2024, m |-> 1, d |-> 5], Amount |-> Num(100),
        Category |-> Food, Description |-> lunch],
       [Date |-> [y |-> 2024, m |-> 1, d |-> 6], Amount |-> Num(50),
        Category |-> Transport, Description |-> bus] >>

\* What C8 says of the summary of the collection.
SummaryAsClaimed ==
    IF data = <<>>
    THEN outcome.nodata /\ outcome.text = MsgNoData
    ELSE /\ ~outcome.nodata
         /\ Num(outcome.total) = SumAt(Positions)
         /\ outcome.average.den > 0
         /\ outcome.average.num * Len(data) = outcome.total * outcome.average.den
         /\ DOMAIN outcome.by_category = StoredCategories
         /\ \A c \in StoredCategories :
                Num(outcome.by_category[c]) =
                    SumAt({i \in Positions : data[i].Category = c})
         /\ SumOfValues(outcome.by_category, StoredCategories) = outcome.total
         /\ data = ScenarioData =>
                /\ outcome.total = 150
                /\ outcome.average = [num |-> 75, den |-> 1]
                /\ outcome.by_category[Food] = 100
                /\ outcome.by_category[Transport] = 50

\* C8 as claimed: on a non-empty collection get_summary gives the sum of all
\* amounts as total, total over the number of records as average, and per
\* stored category the sum of its records' amounts (these sums adding up to
\* total); on an empty collection it gives the no-data result and no total.
\* After the scenario's two adds: total 150, average 75, Food 100,
\* Transport 50.
C8_AsClaimed == (call.op = "summary") => SummaryAsClaimed

\* C8 for the collections whose amounts are all numbers: there the summary
\* is as claimed.
C8_NumbersOnly ==
    (call.op = "summary" /\ \A i \in Positions : ~data[i].Amount.nan) =>
        SummaryAsClaimed

\* C9: filter_expenses applied again, with the same arguments, to the rows
\* it returned gives the same rows.
C9_Idempotent ==
    (call.op = "refilter") => outcome.rows = outcome.first

C9_Witness ==
    /\ call.op = "refilter"
    /\ call.categories.some
    /\ outcome.first # <<>>
    /\ Len(outcome.first) < Len(data)
    /\ \E i \in Positions : lower(data[i].Category) # data[i].Category

====
